---- MODULE Spec2Model ----
(***************************************************************************)
(* Route animation engine of wanderer: GameRenderer.render_route and the   *)
(* phases it drives (render_movement, render_map_transition,               *)
(* render_final_zoom_out), the interpolator points_between, lerp, the      *)
(* viewport GameMap.get_crop_at_position and the route compiler            *)
(* Game.parse_route_file.                                                  *)
(*                                                                         *)
(* Position2D coordinates are Python floats.  They are modelled in exact   *)
(* fixed point: one model unit is 1/Scale pixel.  The game data below is   *)
(* chosen so that every distance the renderer takes is a whole number of   *)
(* units and every interpolated sample lies on the grid (ExactGeometry     *)
(* states this), so no rounding is left out.  Python assert statements are *)
(* modelled as active (AssertionError).                                    *)
(***************************************************************************)
EXTENDS Integers, Sequences, FiniteSets, TLC

\* ------------------------------------------------------------------------
\* Program constants
\* ------------------------------------------------------------------------

\* Model units per pixel (Position2D.x / .y are floats; half pixels are the
\* finest values the modelled game data produces).
Scale == 2

\* renderer.py:27  frame_rate = 24
frame_rate == 24

\* renderer.py:210  assert 0 <= index <= 100000
MaxIndex == 100000

\* renderer.py:116, 135, 138, 182, 186  the fixed 512 x 512 output window
OutputSize == 512

\* ------------------------------------------------------------------------
\* Bounds of the model
\* ------------------------------------------------------------------------

\* Largest number of lines after the "start in" line of a route.
MaxLines == 2

\* How far below the ceiling the near-ceiling render sessions start.
CeilSlack == 12

\* Largest number of lines after the "start in" line in the near-ceiling
\* render sessions.
CeilLines == 1

\* Largest coordinate (pixels) of the points handed to points_between.
MaxCoord == 6

\* Largest map extent and window extent (pixels) handed to
\* get_crop_at_position.
MaxWin == 4

\* ------------------------------------------------------------------------
\* Arithmetic helpers
\* ------------------------------------------------------------------------

Max(a, b) == IF a >= b THEN a ELSE b

Min(a, b) == IF a <= b THEN a ELSE b

Abs(a) == IF a >= 0 THEN a ELSE -a

\* Python int(a / b) for b > 0: truncation toward zero.
TruncDiv(a, b) == IF a >= 0 THEN a \div b ELSE -((-a) \div b)

\* math.ceil(a / b) for a >= 0, b > 0.
CeilDiv(a, b) == (a + b - 1) \div b

RECURSIVE SqrtSearch(_, _, _)
SqrtSearch(n, lo, hi) ==
    IF lo >= hi THEN lo
    ELSE LET mid == (lo + hi + 1) \div 2
         IN IF mid * mid <= n THEN SqrtSearch(n, mid, hi)
            ELSE SqrtSearch(n, lo, mid - 1)

\* Floor of the square root of n, for 0 <= n <= hi * hi.
ISqrt(n, hi) == SqrtSearch(n, 0, hi)

\* ------------------------------------------------------------------------
\* Position2D (src/wanderer/position2d.py)
\* ------------------------------------------------------------------------

Position2D(x, y) == [x |-> x, y |-> y]

\* A position given in whole pixels.
Px(x, y) == Position2D(x * Scale, y * Scale)

\* Position2D.__sub__
Sub(a, b) == Position2D(a.x - b.x, a.y - b.y)

\* Position2D.__add__
Add(a, b) == Position2D(a.x + b.x, a.y + b.y)

\* Position2D.magnitude: sqrt(x^2 + y^2), in model units.
Magnitude(v) == ISqrt(v.x * v.x + v.y * v.y, Abs(v.x) + Abs(v.y))

\* The magnitude of v is a whole number of model units.
ExactMagnitude(v) == Magnitude(v) * Magnitude(v) = v.x * v.x + v.y * v.y

\* ------------------------------------------------------------------------
\* utils.py
\* ------------------------------------------------------------------------

NoError == "none"

\* start + (end - start).unit() * i * movement_speed   (utils.py:23)
Sample(start, end, i, movement_speed) ==
    LET diff == Sub(end, start)
        distance == Magnitude(diff)
    IN Add(start, Position2D(TruncDiv(diff.x * i * movement_speed, distance),
                             TruncDiv(diff.y * i * movement_speed, distance)))

\* points_between(start, end, movement_speed); movement_speed in model
\* units per frame.  The result is the raised error or the list of points.
points_between_nocheck(start, end, movement_speed) ==
    IF start = end THEN [err |-> NoError, points |-> <<start>>]
    ELSE IF movement_speed <= 0
    THEN [err |-> "AssertionError", points |-> <<>>]
    ELSE LET distance == Magnitude(Sub(end, start))
             moves == CeilDiv(distance, movement_speed)
             points == [i \in 1..moves |->
                          Sample(start, end, i - 1, movement_speed)]
         IN IF points[moves] = end
            THEN [err |-> NoError, points |-> points]
            ELSE [err |-> NoError, points |-> Append(points, end)]

points_between_noappend(start, end, movement_speed) ==
    IF movement_speed <= 0
    THEN [err |-> "AssertionError", points |-> <<>>]
    ELSE IF start = end THEN [err |-> NoError, points |-> <<start>>]
    ELSE LET distance == Magnitude(Sub(end, start))
             moves == CeilDiv(distance, movement_speed)
             points == [i \in 1..moves |->
                          Sample(start, end, i - 1, movement_speed)]
         IN [err |-> NoError, points |-> points]

points_between_floor(start, end, movement_speed) ==
    IF movement_speed <= 0
    THEN [err |-> "AssertionError", points |-> <<>>]
    ELSE IF start = end THEN [err |-> NoError, points |-> <<start>>]
    ELSE LET distance == Magnitude(Sub(end, start))
             moves == Max(1, distance \div movement_speed)
             points == [i \in 1..moves |->
                          Sample(start, end, i - 1, movement_speed)]
         IN IF points[moves] = end
            THEN [err |-> NoError, points |-> points]
            ELSE [err |-> NoError, points |-> Append(points, end)]

points_between(start, end, movement_speed) ==
    IF movement_speed <= 0
    THEN [err |-> "AssertionError", points |-> <<>>]
    ELSE IF start = end THEN [err |-> NoError, points |-> <<start>>]
    ELSE LET distance == Magnitude(Sub(end, start))
             moves == CeilDiv(distance, movement_speed)
             points == [i \in 1..moves |->
                          Sample(start, end, i - 1, movement_speed)]
         IN IF points[moves] = end
            THEN [err |-> NoError, points |-> points]
            ELSE [err |-> NoError, points |-> Append(points, end)]

\* A rational number num / den.
Ratio(num, den) == [num |-> num, den |-> den]

\* lerp(start, end, delta) for scalars start, end (pixels) and a rational
\* delta; the result is the rational start + (end - start) * delta.
lerp(start, end, delta) ==
    IF delta.num < 0 \/ delta.num > delta.den
    THEN [err |-> "AssertionError", value |-> Ratio(0, 1)]
    ELSE [err |-> NoError,
          value |-> Ratio(start * delta.den + (end - start) * delta.num,
                          delta.den)]

\* Python int() of a rational: truncation toward zero.
PyInt(r) == TruncDiv(r.num, r.den)

\* ------------------------------------------------------------------------
\* GameMap.get_crop_at_position (game.py:310-327)
\* ------------------------------------------------------------------------

\* position and self_image_size (GameMap.image_size) in model units, crop_size a pair of pixel counts.
\* The first component of crop_size is unpacked as the height.
get_crop_at_position(self_image_size, position, crop_size) ==
    LET height == crop_size[1]
        width == crop_size[2]
        halfW == (width * Scale) \div 2
        halfH == (height * Scale) \div 2
    IN IF width * Scale > self_image_size.x \/ height * Scale > self_image_size.y
       THEN [err |-> "ValueError", rect |-> <<0, 0, 0, 0>>]
       ELSE LET center_x == TruncDiv(Max(halfW, Min(position.x,
                                         self_image_size.x - halfW)), Scale)
                center_y == TruncDiv(Max(halfH, Min(position.y,
                                         self_image_size.y - halfH)), Scale)
            IN [err |-> NoError,
                rect |-> <<TruncDiv(center_x * Scale - halfW, Scale),
                           TruncDiv(center_y * Scale - halfH, Scale),
                           TruncDiv(center_x * Scale + halfW, Scale),
                           TruncDiv(center_y * Scale + halfH, Scale)>>]

\* ------------------------------------------------------------------------
\* Game data (the in-memory object graph built by Game.load_from_dict)
\* ------------------------------------------------------------------------

\* Game.game_maps, in load order.
game_maps == <<"Mojave", "BigMT", "Vault">>

\* GameMap.image_size (Position2D(*image.size)) of each map.
image_size ==
    [Mojave |-> Px(1200, 1000), BigMT |-> Px(1000, 1000), Vault |-> Px(400, 400)]

\* GameMap.speed_multiplier of each map (asserted > 0 at game.py:258).
speed_multiplier == [Mojave |-> 1, BigMT |-> 2, Vault |-> 1]

\* Location(name, position, game_map)
Location(name, position, game_map) ==
    [name |-> name, position |-> position, game_map |-> game_map]

\* The locations of the configuration, in load order.
Locations ==
    << Location("Goodsprings", Px(600, 500), "Mojave"),
       Location("Primm", Px(900, 900), "Mojave"),
       Location("The Sink", Px(500, 500), "BigMT"),
       Location("X-8", Px(800, 900), "BigMT"),
       Location("Vault 3", Px(200, 100), "Vault"),
       Location("Outpost", Px(300, 200), "Mojave"),
       Location("Outpost", Px(100, 100), "BigMT") >>

\* slugify(name) of python-slugify on the names of the model.
slugify(name) ==
    CASE name = "Goodsprings" -> "goodsprings"
      [] name = "Primm" -> "primm"
      [] name = "The Sink" -> "the-sink"
      [] name = "X-8" -> "x-8"
      [] name = "Vault 3" -> "vault-3"
      [] name = "Outpost" -> "outpost"
      [] name = "PRIMM" -> "primm"
      [] name = "the sink" -> "the-sink"
      [] name = "Prim" -> "prim"
      [] name = "Prixy" -> "prixy"
      [] name = "Prixyz" -> "prixyz"
      [] name = "Zzz" -> "zzz"
      [] OTHER -> name

\* GameMap.location_map as filled by GameMap.add_location: the locations of
\* a map keyed by slug, here as the list of its (slug, location) entries.
location_map(game_map) ==
    SelectSeq(Locations, LAMBDA l : l.game_map = game_map)

\* MovementType(name, pixels_per_second, colour_code); pixels_per_second is
\* asserted >= 0 (game.py:52).
MovementType(name, pixels_per_second, colour_code) ==
    [name |-> name, pixels_per_second |-> pixels_per_second,
     colour_code |-> colour_code]

\* Game.movement_types
movement_types ==
    << MovementType("Teleport", 0, "#0000ff"),
       MovementType("Walk", 3600, "#ff0000"),
       MovementType("Swim", 2400, "#00ffff"),
       MovementType("swim", 1200, "#ffff00") >>

\* Movement(start, end, movement_type)
Movement(start, end, movement_type) ==
    [start |-> start, end |-> end, movement_type |-> movement_type]

\* str.lower() on the movement type names of the model.
lower(name) ==
    CASE name = "Teleport" -> "teleport"
      [] name = "Walk" -> "walk"
      [] name = "Swim" -> "swim"
      [] name = "WALK" -> "walk"
      [] name = "Fly" -> "fly"
      [] OTHER -> name

\* ------------------------------------------------------------------------
\* Location resolver and route compiler (game.py)
\* ------------------------------------------------------------------------

RECURSIVE Concat(_)
Concat(seqs) ==
    IF seqs = <<>> THEN <<>> ELSE Head(seqs) \o Concat(Tail(seqs))

\* The exceptions of the resolver and the compiler, by class and message.
TooManyLocations == "ValueError: Too many location match the name"

CannotFindLocation == "ValueError: Cannot find location with name"

CouldNotFindMovementType == "ValueError: Could not find movement type"

TooManyMovementTypes == "ValueError: Too many matching movement types"

CouldNotMatchLine == "ValueError: Could not match line to route"

\* The score a fuzzy candidate has to reach (game.py:299).
FuzzyThreshold == 55

\* The characters of the names of the model.
Chars(name) ==
    CASE name = "Goodsprings" ->
           <<"G", "o", "o", "d", "s", "p", "r", "i", "n", "g", "s">>
      [] name = "Primm" ->
           <<"P", "r", "i", "m", "m">>
      [] name = "The Sink" ->
           <<"T", "h", "e", " ", "S", "i", "n", "k">>
      [] name = "X-8" ->
           <<"X", "-", "8">>
      [] name = "Vault 3" ->
           <<"V", "a", "u", "l", "t", " ", "3">>
      [] name = "Outpost" ->
           <<"O", "u", "t", "p", "o", "s", "t">>
      [] name = "PRIMM" ->
           <<"P", "R", "I", "M", "M">>
      [] name = "the sink" ->
           <<"t", "h", "e", " ", "s", "i", "n", "k">>
      [] name = "Prim" ->
           <<"P", "r", "i", "m">>
      [] name = "Prixy" ->
           <<"P", "r", "i", "x", "y">>
      [] name = "Prixyz" ->
           <<"P", "r", "i", "x", "y", "z">>
      [] name = "Zzz" ->
           <<"Z", "z", "z">>
      [] OTHER -> <<>>

\* One row of the longest-common-subsequence table: the row of the prefix
\* of s1 that ends in ch, from the row prev of the prefix before it.
RECURSIVE LcsRow(_, _, _, _)
LcsRow(prev, ch, s2, acc) ==
    IF Len(acc) = Len(s2) THEN acc
    ELSE LET j == Len(acc) + 1
             diag == IF j = 1 THEN 0 ELSE prev[j - 1]
             left == IF j = 1 THEN 0 ELSE acc[j - 1]
             v == IF ch = s2[j] THEN diag + 1
                  ELSE IF prev[j] >= left THEN prev[j] ELSE left
         IN LcsRow(prev, ch, s2, Append(acc, v))

RECURSIVE LcsRows(_, _, _)
LcsRows(s1, s2, prev) ==
    IF s1 = <<>> THEN prev
    ELSE LcsRows(Tail(s1), s2, LcsRow(prev, Head(s1), s2, <<>>))

\* Length of the longest common subsequence of two character sequences.
Lcs(s1, s2) ==
    IF s2 = <<>> THEN 0
    ELSE LcsRows(s1, s2, [j \in 1..Len(s2) |-> 0])[Len(s2)]

\* fuzz.ratio(s1, s2) >= cutoff: the ratio is the normalised indel
\* similarity 100 * 2 * lcs / (len(s1) + len(s2)), 100 for two empty strings.
RatioAtLeast(s1, s2, cutoff) ==
    LET c1 == Chars(s1)
        c2 == Chars(s2)
    IN IF Len(c1) + Len(c2) = 0 THEN 100 >= cutoff
       ELSE 200 * Lcs(c1, c2) >= cutoff * (Len(c1) + Len(c2))

\* GameMap.find_location_by_name(location_name, fuzzy=False)
MapFindLocationByName(game_map, location_name) ==
    SelectSeq(location_map(game_map),
              LAMBDA l : slugify(l.name) = slugify(location_name))

\* GameMap.find_location_by_name(location_name, fuzzy=True)
MapFindLocationFuzzy(game_map, location_name) ==
    SelectSeq(location_map(game_map),
              LAMBDA l : RatioAtLeast(location_name, l.name, FuzzyThreshold))

\* Game.find_location_by_name; suggestions are the locations named in the
\* "Did you mean" part of the message.
find_location_by_name_autocorrect(location_name) ==
    LET locations ==
            Concat([i \in 1..Len(game_maps) |->
                      MapFindLocationByName(game_maps[i], location_name)])
        fuzzy_locations ==
            Concat([i \in 1..Len(game_maps) |->
                      MapFindLocationFuzzy(game_maps[i], location_name)])
    IN IF Len(locations) > 1
       THEN [err |-> TooManyLocations, location |-> Locations[1],
             suggestions |-> <<>>]
       ELSE IF Len(locations) = 0
       THEN IF Len(fuzzy_locations) > 0
            THEN [err |-> NoError, location |-> fuzzy_locations[1],
                  suggestions |-> <<>>]
            ELSE [err |-> CannotFindLocation, location |-> Locations[1],
                  suggestions |-> fuzzy_locations]
       ELSE [err |-> NoError, location |-> locations[1],
             suggestions |-> <<>>]

find_location_by_name(location_name) ==
    LET locations ==
            Concat([i \in 1..Len(game_maps) |->
                      MapFindLocationByName(game_maps[i], location_name)])
        fuzzy_locations ==
            Concat([i \in 1..Len(game_maps) |->
                      MapFindLocationFuzzy(game_maps[i], location_name)])
    IN IF Len(locations) > 1
       THEN [err |-> TooManyLocations, location |-> Locations[1],
             suggestions |-> <<>>]
       ELSE IF Len(locations) = 0
       THEN [err |-> CannotFindLocation, location |-> Locations[1],
             suggestions |-> fuzzy_locations]
       ELSE [err |-> NoError, location |-> locations[1],
             suggestions |-> <<>>]

\* Game.get_movement_type
get_movement_type_cased(movement_type_name) ==
    LET matching_types ==
            SelectSeq(movement_types,
                      LAMBDA t : t.name = movement_type_name)
    IN IF Len(matching_types) = 0
       THEN [err |-> CouldNotFindMovementType,
             movement_type |-> movement_types[1]]
       ELSE IF Len(matching_types) > 1
       THEN [err |-> TooManyMovementTypes,
             movement_type |-> movement_types[1]]
       ELSE [err |-> NoError, movement_type |-> matching_types[1]]

get_movement_type(movement_type_name) ==
    LET matching_types ==
            SelectSeq(movement_types,
                      LAMBDA t : lower(t.name) = lower(movement_type_name))
    IN IF Len(matching_types) = 0
       THEN [err |-> CouldNotFindMovementType,
             movement_type |-> movement_types[1]]
       ELSE IF Len(matching_types) > 1
       THEN [err |-> TooManyMovementTypes,
             movement_type |-> movement_types[1]]
       ELSE [err |-> NoError, movement_type |-> matching_types[1]]

\* A line of a route file: "start in <location>", "<movement> to
\* <location>", or a blank line.
StartLine(location) ==
    [kind |-> "start", movement |-> "", location |-> location]

MoveLine(movement, location) ==
    [kind |-> "move", movement |-> movement, location |-> location]

BlankLine == [kind |-> "blank", movement |-> "", location |-> ""]

\* A line that matches neither pattern, such as "Walk Primm".
BadLine == [kind |-> "bad", movement |-> "", location |-> ""]

\* The loop of Game.parse_route_file over lines[1:]  (game.py:141-154)
RECURSIVE ParseMovementLines_nochain(_, _, _)
ParseMovementLines_nochain(lines, last_location, movements) ==
    IF lines = <<>> THEN [err |-> NoError, movements |-> movements]
    ELSE LET line == Head(lines)
         IN IF line.kind = "blank"
            THEN ParseMovementLines_nochain(Tail(lines), last_location,
                                            movements)
            ELSE IF line.kind # "move"
            THEN [err |-> CouldNotMatchLine, movements |-> <<>>]
            ELSE LET next_location == find_location_by_name(line.location)
                     movement_type == get_movement_type(line.movement)
                 IN IF next_location.err # NoError
                    THEN [err |-> next_location.err, movements |-> <<>>]
                    ELSE IF movement_type.err # NoError
                    THEN [err |-> movement_type.err, movements |-> <<>>]
                    ELSE ParseMovementLines_nochain(
                           Tail(lines), last_location,
                           Append(movements,
                                  Movement(last_location,
                                           next_location.location,
                                           movement_type.movement_type)))

RECURSIVE ParseMovementLines(_, _, _)
ParseMovementLines(lines, last_location, movements) ==
    IF lines = <<>> THEN [err |-> NoError, movements |-> movements]
    ELSE LET line == Head(lines)
         IN IF line.kind = "blank"
            THEN ParseMovementLines(Tail(lines), last_location, movements)
            ELSE IF line.kind # "move"
            THEN [err |-> CouldNotMatchLine, movements |-> <<>>]
            ELSE LET next_location == find_location_by_name(line.location)
                     movement_type == get_movement_type(line.movement)
                 IN IF next_location.err # NoError
                    THEN [err |-> next_location.err, movements |-> <<>>]
                    ELSE IF movement_type.err # NoError
                    THEN [err |-> movement_type.err, movements |-> <<>>]
                    ELSE ParseMovementLines(
                           Tail(lines), next_location.location,
                           Append(movements,
                                  Movement(last_location,
                                           next_location.location,
                                           movement_type.movement_type)))

\* Game.parse_route_file on the lines read from the route file
parse_route_file_lenient(lines) ==
    IF lines = <<>> THEN [err |-> "IndexError", movements |-> <<>>]
    ELSE IF lines[1].kind # "start"
    THEN [err |-> "AttributeError", movements |-> <<>>]
    ELSE LET start_location == find_location_by_name(lines[1].location)
             accepted ==
                SelectSeq(Tail(lines),
                    LAMBDA l :
                        /\ l.kind = "move"
                        /\ find_location_by_name(l.location).err = NoError
                        /\ get_movement_type(l.movement).err = NoError)
         IN IF start_location.err # NoError
            THEN [err |-> start_location.err, movements |-> <<>>]
            ELSE ParseMovementLines(accepted, start_location.location, <<>>)

parse_route_file(lines) ==
    IF lines = <<>> THEN [err |-> "IndexError", movements |-> <<>>]
    ELSE IF lines[1].kind # "start"
    THEN [err |-> "AttributeError", movements |-> <<>>]
    ELSE LET start_location == find_location_by_name(lines[1].location)
         IN IF start_location.err # NoError
            THEN [err |-> start_location.err, movements |-> <<>>]
            ELSE ParseMovementLines(Tail(lines), start_location.location,
                                    <<>>)

\* ------------------------------------------------------------------------
\* State
\* ------------------------------------------------------------------------

VARIABLES
    lines,       \* the lines of the route file handed to render_route
    listed,      \* render_route: the frame files os.listdir found at its start
    pc,          \* position of render_route: "start", "loop", "movement",
                 \* "transition", "zoom", "ffmpeg", "done", "error";
                 \* "call" in the specification of the pure functions
    error,       \* the exception that ended the render, NoError if none
    movements,   \* render_route: movements
    mi,          \* render_route: 1-based position of the for loop
    index,       \* render_route: index / current_index of the phase running
    locals,      \* local variables of the phase that is running
    image,       \* GameMap.image of each map: the set of trail lines baked in
    frames,      \* the frames saved so far, in the order of the save calls
    phases,      \* the phase methods entered so far, in call order
    dirFrames,   \* indices of the output_NNNNNN.jpeg files in the directory
    dirVideo,    \* whether final.mp4 exists in the output directory
    call,        \* pure functions: the arguments of the last call
    ret          \* pure functions: what the last call returned or raised

vars == <<lines, listed, pc, error, movements, mi, index, locals, image, frames,
          phases, dirFrames, dirVideo, call, ret>>

NoLocals ==
    [points |-> <<>>, i |-> 0, frame_count |-> 0, base_image |-> {},
     crops |-> <<>>, start |-> Position2D(0, 0), end |-> Position2D(0, 0)]

NoCall == [fn |-> "none"]

\* ------------------------------------------------------------------------
\* Inputs
\* ------------------------------------------------------------------------

LocationNames == {Locations[i].name : i \in 1..Len(Locations)}

MovementNames == {movement_types[i].name : i \in 1..Len(movement_types)}

\* Names that resolve to one location, and names of one movement type.
UniqueLocationNames ==
    {n \in LocationNames : find_location_by_name(n).err = NoError}

UniqueMovementNames ==
    {n \in MovementNames : get_movement_type(n).err = NoError}

\* Lines after the first that the compiler rejects: a location on two maps,
\* a misspelt location, an unknown movement type, a movement type defined
\* twice, both defects at once, and two lines that match no movement.
RejectedLines ==
    {MoveLine("Walk", "Outpost"), MoveLine("Walk", "Prim"),
     MoveLine("Fly", "Primm"), MoveLine("Swim", "Primm"),
     MoveLine("Fly", "Prim"), BadLine, StartLine("Primm")}

\* The lines a route may have after its first line.
MoveLines ==
    {MoveLine(m, l) : m \in UniqueMovementNames, l \in UniqueLocationNames}
        \cup {BlankLine} \cup RejectedLines

\* The first lines of the route files.
FirstLines ==
    {StartLine(l) : l \in LocationNames \cup {"Prim"}}
        \cup {MoveLine("Walk", "Primm"), BlankLine}

SeqsUpTo(S, n) == UNION {[1..k -> S] : k \in 0..n}

\* The route files of the model: the empty file, the files with a first
\* line that resolves, and, with at most one line more, the files with any
\* first line.
Routes ==
    {<<>>} \cup
    {<<StartLine(l)>> \o rest :
        l \in UniqueLocationNames,
        rest \in SeqsUpTo(MoveLines, MaxLines)} \cup
    {<<first>> \o rest :
        first \in FirstLines, rest \in SeqsUpTo(MoveLines, 1)}

\* Frame files left in the output directory by an earlier render.
StaleFrames == {{0, 1, 60}}

\* ------------------------------------------------------------------------
\* Frame sequencer and frame records
\* ------------------------------------------------------------------------

\* GameRenderer.get_output_filename: the assertion on the index; the file
\* name output_{index:06}.{extension} is represented by index itself.
get_output_filename_open(idx) ==
    [err |-> NoError, name |-> idx]

get_output_filename(idx) ==
    IF 0 <= idx /\ idx <= MaxIndex
    THEN [err |-> NoError, name |-> idx]
    ELSE [err |-> "AssertionError", name |-> idx]

\* current_index += 1   (renderer.py:106, 148, 179)
NextIndex_same(current_index) == current_index

NextIndex(current_index) == current_index + 1

\* A baked or drawn trail line: draw.line((start.x, start.y, point.x,
\* point.y), fill=colour).
TrailLine(from, to, colour) == [from |-> from, to |-> to, colour |-> colour]

\* One saved frame: the file index, the phase and movement that produced
\* it, the interpolated point, the map images it was composed from with
\* their crop rectangles, the trail line and arrow drawn on top, and the
\* blend factor of a transition frame.
Frame(idx, phase, mov, point, sources, line, arrow, blend) ==
    [index |-> idx, phase |-> phase, mov |-> mov, point |-> point,
     sources |-> sources, line |-> line, arrow |-> arrow, blend |-> blend]

\* A map image cropped to a rectangle.
Crop(game_map, content, rect) ==
    [game_map |-> game_map, content |-> content, rect |-> rect]

Phase(kind, mov, anchor) == [kind |-> kind, mov |-> mov, anchor |-> anchor]

Raise_caught(exception) ==
    /\ pc' = "ffmpeg"
    /\ error' = exception

Raise(exception) ==
    /\ pc' = "error"
    /\ error' = exception

\* ------------------------------------------------------------------------
\* GameRenderer (src/wanderer/renderer.py)
\* ------------------------------------------------------------------------

GameMapNames == {game_maps[i] : i \in 1..Len(game_maps)}

Init ==
    /\ lines \in Routes
    /\ pc = "start"
    /\ error = NoError
    /\ movements = <<>>
    /\ mi = 0
    /\ index = 0
    /\ locals = NoLocals
    /\ image = [m \in GameMapNames |-> {}]
    /\ frames = <<>>
    /\ phases = <<>>
    /\ dirFrames \in StaleFrames
    /\ listed = dirFrames
    /\ dirVideo = (dirFrames # {})
    /\ call = NoCall
    /\ ret = NoCall

\* render_route: the files of the output directory it removes first, by
\* extension (renderer.py:20-25); the frames are saved as .jpeg.
RemovedOnStart_video(extension) == extension = "mp4"

RemovedOnStart(extension) == extension \in {"jpeg", "webp", "mp4"}

\* render_route up to the for loop (renderer.py:19-31): clear the output
\* directory, compile the route, index = 0.
RenderRouteStart ==
    /\ pc = "start"
    /\ dirFrames' = IF RemovedOnStart("jpeg") THEN {} ELSE dirFrames
    /\ dirVideo' = IF RemovedOnStart("mp4") THEN FALSE ELSE dirVideo
    /\ LET parsed == parse_route_file(lines)
       IN IF parsed.err # NoError
          THEN /\ Raise(parsed.err)
               /\ UNCHANGED <<movements, mi, index>>
          ELSE /\ movements' = parsed.movements
               /\ index' = 0
               /\ mi' = 1
               /\ pc' = "loop"
               /\ error' = error
    /\ UNCHANGED <<lines, listed, locals, image, frames, phases, call, ret>>

\* render_movement: movement_speed (renderer.py:80-83), model units / frame
MovementSpeed(movement) ==
    (movement.movement_type.pixels_per_second
       * speed_multiplier[movement.start.game_map] * Scale) \div frame_rate

\* render_route: the branch of the for loop (renderer.py:33)
IsMapTransition_never(movement) == FALSE

IsMapTransition(movement) ==
    movement.start.game_map # movement.end.game_map

\* render_route calls render_movement, which runs up to its for loop
\* (renderer.py:44-50, 80-87).
BeginMovement ==
    /\ pc = "loop"
    /\ mi <= Len(movements)
    /\ ~IsMapTransition(movements[mi])
    /\ LET movement == movements[mi]
           points == points_between(movement.start.position,
                                    movement.end.position,
                                    MovementSpeed(movement))
       IN /\ phases' = Append(phases, Phase("MOVEMENT", mi,
                                            movement.start.position))
          /\ IF points.err # NoError
             THEN /\ Raise(points.err)
                  /\ UNCHANGED locals
             ELSE /\ pc' = "movement"
                  /\ error' = error
                  /\ locals' = [NoLocals EXCEPT
                        !.points = points.points,
                        !.i = 1,
                        !.base_image = image[movement.start.game_map],
                        !.start = movement.start.position,
                        !.end = movement.end.position]
    /\ UNCHANGED <<lines, listed, movements, mi, index, image, frames,
                   dirFrames, dirVideo, call, ret>>

\* render_movement: if point == points[-1]   (renderer.py:107)
IsLastPoint_always(point, points) == TRUE

IsLastPoint(point, points) == point = points[Len(points)]

\* draw.line on the copy im of the base image   (renderer.py:90-100)
DrawLine_blank(im, line) == {line}

DrawLine(im, line) == im \cup {line}

\* The arrow image pasted by overlay_arrow: its position and the direction
\* it is rotated to.
Arrow(start, end, current) ==
    [arrow_at |-> current, direction |-> Sub(end, start)]

\* GameRenderer.overlay_arrow: pastes the arrow onto the image it is given
\* and returns that image (renderer.py:191-207).
overlay_arrow(im, start, end, current) ==
    im \cup {Arrow(start, end, current)}

\* What im.copy() stores as the image of the map: im as drawn when the
\* copy is taken, before overlay_arrow pastes onto im (renderer.py:107-114).
ImageAtBake_late(drawn, overlaid) == overlaid

ImageAtBake(drawn, overlaid) == drawn

\* One iteration of the for loop of render_movement (renderer.py:89-118);
\* the last iteration also returns to render_route (renderer.py:120).
MovementFrame ==
    /\ pc = "movement"
    /\ LET movement == movements[mi]
           game_map == movement.start.game_map
           point == locals.points[locals.i]
           line == TrailLine(movement.start.position, point,
                             movement.movement_type.colour_code)
           output_file == get_output_filename(index)
           isLast == IsLastPoint(point, locals.points)
           drawn == DrawLine(locals.base_image, line)
           overlaid == overlay_arrow(drawn, movement.start.position,
                                     movement.end.position, point)
           crop == get_crop_at_position(image_size[game_map], point,
                                        <<OutputSize, OutputSize>>)
       IN IF output_file.err # NoError
          THEN /\ Raise(output_file.err)
               /\ UNCHANGED <<mi, index, locals, image, frames, dirFrames>>
          ELSE /\ index' = NextIndex(index)
               /\ image' = IF isLast
                           THEN [image EXCEPT
                                   ![game_map] = ImageAtBake(drawn, overlaid)]
                           ELSE image
               /\ IF crop.err # NoError
                  THEN /\ Raise(crop.err)
                       /\ UNCHANGED <<mi, locals, frames, dirFrames>>
                  ELSE /\ frames' = Append(frames,
                              Frame(output_file.name, "MOVEMENT", mi, point,
                                    <<Crop(game_map, locals.base_image,
                                           crop.rect)>>,
                                    <<line>>, <<point>>, <<>>))
                       /\ dirFrames' = dirFrames \cup {output_file.name}
                       /\ error' = error
                       /\ IF locals.i = Len(locals.points)
                          THEN /\ pc' = "loop"
                               /\ mi' = mi + 1
                               /\ locals' = NoLocals
                          ELSE /\ pc' = pc
                               /\ mi' = mi
                               /\ locals' = [locals EXCEPT !.i = locals.i + 1]
    /\ UNCHANGED <<lines, listed, movements, phases, dirVideo, call, ret>>

\* frame_count = int(frame_rate / 2)   (renderer.py:141)
TransitionFrameCount_plus == frame_rate \div 2 + 1

TransitionFrameCount == frame_rate \div 2

\* Image.blend(base_crop, overlay_crop, i / frame_count) (renderer.py:143)
BlendFactor(i, frame_count) == Ratio(i, frame_count)

\* render_route calls render_map_transition, which runs up to its for loop
\* (renderer.py:34-40, 130-141).
BeginMapTransition ==
    /\ pc = "loop"
    /\ mi <= Len(movements)
    /\ IsMapTransition(movements[mi])
    /\ LET movement == movements[mi]
           base_rect == get_crop_at_position(
                            image_size[movement.start.game_map],
                            movement.start.position,
                            <<OutputSize, OutputSize>>)
           overlay_rect == get_crop_at_position(
                            image_size[movement.end.game_map],
                            movement.end.position,
                            <<OutputSize, OutputSize>>)
           failed == IF base_rect.err # NoError THEN base_rect.err
                     ELSE overlay_rect.err
       IN /\ phases' = Append(phases, Phase("TRANSITION", mi,
                                            movement.start.position))
          /\ IF failed # NoError
             THEN /\ Raise(failed)
                  /\ UNCHANGED <<mi, locals>>
             ELSE /\ error' = error
                  /\ IF TransitionFrameCount = 0
                     THEN /\ pc' = "loop"
                          /\ mi' = mi + 1
                          /\ locals' = NoLocals
                     ELSE /\ pc' = "transition"
                          /\ mi' = mi
                          /\ locals' = [NoLocals EXCEPT
                                !.frame_count = TransitionFrameCount,
                                !.i = 0,
                                !.crops =
                                  <<Crop(movement.start.game_map,
                                         image[movement.start.game_map],
                                         base_rect.rect),
                                    Crop(movement.end.game_map,
                                         image[movement.end.game_map],
                                         overlay_rect.rect)>>,
                                !.start = movement.start.position,
                                !.end = movement.end.position]
    /\ UNCHANGED <<lines, listed, movements, index, image, frames, dirFrames,
                   dirVideo, call, ret>>

\* One iteration of the for loop of render_map_transition
\* (renderer.py:142-149); the last one also returns (renderer.py:151, 42).
TransitionFrame ==
    /\ pc = "transition"
    /\ LET output_file == get_output_filename(index)
       IN IF output_file.err # NoError
          THEN /\ Raise(output_file.err)
               /\ UNCHANGED <<mi, index, locals, frames, dirFrames>>
          ELSE /\ index' = NextIndex(index)
               /\ frames' = Append(frames,
                      Frame(output_file.name, "TRANSITION", mi, locals.start,
                            locals.crops, <<>>, <<>>,
                            <<BlendFactor(locals.i, locals.frame_count)>>))
               /\ dirFrames' = dirFrames \cup {output_file.name}
               /\ error' = error
               /\ IF locals.i + 1 = locals.frame_count
                  THEN /\ pc' = "loop"
                       /\ mi' = mi + 1
                       /\ locals' = NoLocals
                  ELSE /\ pc' = pc
                       /\ mi' = mi
                       /\ locals' = [locals EXCEPT !.i = locals.i + 1]
    /\ UNCHANGED <<lines, listed, movements, image, phases, dirVideo, call,
                   ret>>

\* render_final_zoom_out: movement_speed (renderer.py:162-166), model units
\* per frame.
ZoomSpeed(last_movement) ==
    (last_movement.movement_type.pixels_per_second
       * speed_multiplier[last_movement.end.game_map] * Scale)
      \div (2 * frame_rate)

\* game_map.image_size / 2   (renderer.py:169)
MapCentre(game_map) ==
    Position2D(image_size[game_map].x \div 2, image_size[game_map].y \div 2)

\* The for loop of render_route is exhausted: movements[-1] is evaluated and
\* render_final_zoom_out runs up to its for loop (renderer.py:52-58,
\* 161-171).
BeginZoomOut ==
    /\ pc = "loop"
    /\ mi > Len(movements)
    /\ IF movements = <<>>
       THEN /\ Raise("IndexError")
            /\ UNCHANGED <<locals, phases>>
       ELSE LET last_movement == movements[Len(movements)]
                game_map == last_movement.end.game_map
                start == last_movement.end.position
                end == MapCentre(game_map)
                points == points_between(start, end, ZoomSpeed(last_movement))
            IN /\ phases' = Append(phases,
                                   Phase("ZOOM_OUT", Len(movements), start))
               /\ IF points.err # NoError
                  THEN /\ Raise(points.err)
                       /\ UNCHANGED locals
                  ELSE /\ pc' = "zoom"
                       /\ error' = error
                       /\ locals' = [NoLocals EXCEPT
                             !.points = points.points,
                             !.i = 1,
                             !.base_image = image[game_map],
                             !.start = start,
                             !.end = end]
    /\ UNCHANGED <<lines, listed, movements, mi, index, image, frames,
                   dirFrames, dirVideo, call, ret>>

\* zoom_ratio, resize and the crop rectangle of one zoom-out frame
\* (renderer.py:181-185).
ZoomCrop(game_map, start, end, point) ==
    LET den == Magnitude(Sub(start, end))
        zoom_ratio == Ratio(Magnitude(Sub(start, point)), den)
        resize_x == lerp(OutputSize, image_size[game_map].x \div Scale,
                         zoom_ratio)
        resize_y == lerp(OutputSize, image_size[game_map].y \div Scale,
                         zoom_ratio)
        crop_size == <<PyInt(resize_x.value), PyInt(resize_y.value)>>
        crop == get_crop_at_position(image_size[game_map], point, crop_size)
    IN IF den = 0
       THEN [err |-> "ZeroDivisionError", zoom_ratio |-> Ratio(0, 1),
             crop_size |-> <<0, 0>>, rect |-> <<0, 0, 0, 0>>]
       ELSE IF resize_x.err # NoError
       THEN [err |-> resize_x.err, zoom_ratio |-> zoom_ratio,
             crop_size |-> <<0, 0>>, rect |-> <<0, 0, 0, 0>>]
       ELSE [err |-> crop.err, zoom_ratio |-> zoom_ratio,
             crop_size |-> crop_size, rect |-> crop.rect]

\* One iteration of the for loop of render_final_zoom_out
\* (renderer.py:173-187); the last one also returns (renderer.py:189).
ZoomFrame ==
    /\ pc = "zoom"
    /\ LET game_map == movements[Len(movements)].end.game_map
           point == locals.points[locals.i]
           output_file == get_output_filename(index)
           zoom == ZoomCrop(game_map, locals.start, locals.end, point)
       IN IF output_file.err # NoError
          THEN /\ Raise(output_file.err)
               /\ UNCHANGED <<index, locals, frames, dirFrames>>
          ELSE /\ index' = NextIndex(index)
               /\ IF zoom.err # NoError
                  THEN /\ Raise(zoom.err)
                       /\ UNCHANGED <<locals, frames, dirFrames>>
                  ELSE /\ frames' = Append(frames,
                              Frame(output_file.name, "ZOOM_OUT",
                                    Len(movements), point,
                                    <<Crop(game_map, locals.base_image,
                                           zoom.rect)>>,
                                    <<>>, <<>>, <<zoom.zoom_ratio>>))
                       /\ dirFrames' = dirFrames \cup {output_file.name}
                       /\ error' = error
                       /\ IF locals.i = Len(locals.points)
                          THEN /\ pc' = "ffmpeg"
                               /\ locals' = NoLocals
                          ELSE /\ pc' = pc
                               /\ locals' = [locals EXCEPT !.i = locals.i + 1]
    /\ UNCHANGED <<lines, listed, movements, mi, image, phases, dirVideo,
                   call, ret>>

\* subprocess.run(["ffmpeg", ...]) writes final.mp4 (renderer.py:60-70).
RunFfmpeg ==
    /\ pc = "ffmpeg"
    /\ pc' = "done"
    /\ dirVideo' = TRUE
    /\ UNCHANGED <<lines, listed, error, movements, mi, index, locals, image,
                   frames, phases, dirFrames, call, ret>>

Next ==
    \/ RenderRouteStart
    \/ BeginMovement
    \/ MovementFrame
    \/ BeginMapTransition
    \/ TransitionFrame
    \/ BeginZoomOut
    \/ ZoomFrame
    \/ RunFfmpeg

Spec == Init /\ [][Next]_vars

\* Every distance the renderer takes is a whole number of model units and
\* every interpolated sample lies on the grid.
ExactGeometry ==
    pc \in {"movement", "zoom"} =>
        LET diff == Sub(locals.end, locals.start)
            dist == Magnitude(diff)
            speed == IF pc = "movement" THEN MovementSpeed(movements[mi])
                     ELSE ZoomSpeed(movements[Len(movements)])
        IN /\ ExactMagnitude(diff)
           /\ speed * frame_rate * (IF pc = "movement" THEN 1 ELSE 2)
                = movements[IF pc = "movement" THEN mi ELSE Len(movements)]
                    .movement_type.pixels_per_second * Scale
                    * speed_multiplier[IF pc = "movement"
                        THEN movements[mi].start.game_map
                        ELSE movements[Len(movements)].end.game_map]
           /\ dist > 0 =>
                \A i \in 0..(Len(locals.points) - 1) :
                    /\ (diff.x * i * speed) % dist = 0
                    /\ (diff.y * i * speed) % dist = 0

\* ------------------------------------------------------------------------
\* Render sessions close to the frame ceiling
\* ------------------------------------------------------------------------

CeilRoutes ==
    {<<StartLine(l)>> \o rest :
        l \in UniqueLocationNames, rest \in SeqsUpTo(MoveLines, CeilLines)}

\* The head of the for loop of render_route in a session whose earlier
\* movements have already saved the frames 0 .. index-1; movements holds
\* the movements still to render.  frames, phases and dirFrames record what
\* is saved and entered from here on (the index - 1 earlier files are left
\* out of dirFrames).
InitCeil ==
    /\ lines \in CeilRoutes
    /\ parse_route_file(lines).err = NoError
    /\ pc = "loop"
    /\ error = NoError
    /\ movements = parse_route_file(lines).movements
    /\ mi = 1
    /\ index \in {MaxIndex - CeilSlack, MaxIndex - 1, MaxIndex, MaxIndex + 1}
    /\ locals = NoLocals
    /\ image = [m \in GameMapNames |-> {}]
    /\ frames = <<>>
    /\ phases = <<>>
    /\ dirFrames = {}
    /\ listed = {}
    /\ dirVideo = FALSE
    /\ call = NoCall
    /\ ret = NoCall

NextCeil ==
    \/ BeginMovement
    \/ MovementFrame
    \/ BeginMapTransition
    \/ TransitionFrame
    \/ BeginZoomOut
    \/ ZoomFrame
    \/ RunFfmpeg

SpecCeil == InitCeil /\ [][NextCeil]_vars

\* Render sessions from their start together with those close to the
\* frame ceiling.
InitAny == Init \/ InitCeil

SpecAny == InitAny /\ [][Next]_vars

\* ------------------------------------------------------------------------
\* The pure functions on their own
\* ------------------------------------------------------------------------

InitFn ==
    /\ lines = <<>>
    /\ pc = "call"
    /\ error = NoError
    /\ movements = <<>>
    /\ mi = 0
    /\ index = 0
    /\ locals = NoLocals
    /\ image = [m \in GameMapNames |-> {}]
    /\ frames = <<>>
    /\ phases = <<>>
    /\ dirFrames = {}
    /\ listed = {}
    /\ dirVideo = FALSE
    /\ call = NoCall
    /\ ret = NoCall

\* Points with whole-pixel coordinates.
FnPoints == {Px(x, y) : x \in 0..MaxCoord, y \in 0..MaxCoord}

\* Steps in model units per frame: negative, zero, and positive ones that
\* do and do not divide the distances.
FnSteps == {-2, 0, 1, 2, 3, 5, 10, 4 * MaxCoord}

\* The samples of points_between(start, end, step) lie on the model grid.
OnGrid(start, end, step) ==
    LET diff == Sub(end, start)
        dist == Magnitude(diff)
    IN /\ ExactMagnitude(diff)
       /\ (step > 0 /\ dist > 0) =>
            \A i \in 0..(CeilDiv(dist, step) - 1) :
                /\ (diff.x * i * step) % dist = 0
                /\ (diff.y * i * step) % dist = 0

CallPointsBetween ==
    /\ pc = "call"
    /\ \E start \in FnPoints, end \in FnPoints, step \in FnSteps :
        /\ OnGrid(start, end, step)
        /\ call' = [fn |-> "points_between",
                    args |-> [start |-> start, end |-> end, step |-> step]]
        /\ ret' = points_between(start, end, step)
    /\ pc' = "returned"
    /\ UNCHANGED <<lines, listed, error, movements, mi, index, locals, image,
                   frames, phases, dirFrames, dirVideo>>

\* Map sizes in whole pixels, as Position2D(*image.size) gives them.
FnMapSizes == {Px(x, y) : x \in 1..MaxWin, y \in 1..MaxWin}

\* Focus points in half pixels, inside and outside every map.
FnFocus ==
    {Position2D(x, y) : x \in (-3)..(MaxWin * Scale + 3),
                        y \in {-3, 0, 3, MaxWin, MaxWin * Scale + 3}}

\* Crop sizes (w, h) as the callers pass them.
FnWindows == {<<w, h>> : w \in 1..(MaxWin + 1), h \in 1..(MaxWin + 1)}

CallGetCropAtPosition ==
    /\ pc = "call"
    /\ \E size \in FnMapSizes, position \in FnFocus, crop_size \in FnWindows :
        /\ call' = [fn |-> "get_crop_at_position",
                    args |-> [image_size |-> size, position |-> position,
                              crop_size |-> crop_size]]
        /\ ret' = get_crop_at_position(size, position, crop_size)
    /\ pc' = "returned"
    /\ UNCHANGED <<lines, listed, error, movements, mi, index, locals, image,
                   frames, phases, dirFrames, dirVideo>>

\* Location names as a route may spell them: as configured, in another
\* case, misspelt near and far from a configured name, on two maps.
FnLocationQueries ==
    LocationNames \cup {"PRIMM", "the sink", "Prim", "Prixy", "Prixyz", "Zzz"}

CallFindLocationByName ==
    /\ pc = "call"
    /\ \E location_name \in FnLocationQueries :
        /\ call' = [fn |-> "find_location_by_name",
                    args |-> [location_name |-> location_name]]
        /\ ret' = find_location_by_name(location_name)
    /\ pc' = "returned"
    /\ UNCHANGED <<lines, listed, error, movements, mi, index, locals, image,
                   frames, phases, dirFrames, dirVideo>>

\* Movement type names as a route may spell them.
FnMovementQueries == MovementNames \cup {"WALK", "walk", "wal", "Fly"}

CallGetMovementType ==
    /\ pc = "call"
    /\ \E movement_type_name \in FnMovementQueries :
        /\ call' = [fn |-> "get_movement_type",
                    args |-> [movement_type_name |-> movement_type_name]]
        /\ ret' = get_movement_type(movement_type_name)
    /\ pc' = "returned"
    /\ UNCHANGED <<lines, listed, error, movements, mi, index, locals, image,
                   frames, phases, dirFrames, dirVideo>>

CallParseRouteFile ==
    /\ pc = "call"
    /\ \E route \in Routes :
        /\ call' = [fn |-> "parse_route_file", args |-> [lines |-> route]]
        /\ ret' = parse_route_file(route)
    /\ pc' = "returned"
    /\ UNCHANGED <<lines, listed, error, movements, mi, index, locals, image,
                   frames, phases, dirFrames, dirVideo>>

NextFn ==
    \/ CallPointsBetween
    \/ CallGetCropAtPosition
    \/ CallFindLocationByName
    \/ CallGetMovementType
    \/ CallParseRouteFile

SpecFn == InitFn /\ [][NextFn]_vars

\* ------------------------------------------------------------------------
\* Properties
\* ------------------------------------------------------------------------

\* The phase the specification prescribes for a movement by its maps alone.
KindByMaps(movement) ==
    IF movement.start.game_map # movement.end.game_map
    THEN "TRANSITION" ELSE "MOVEMENT"

Compiled == pc \notin {"start", "call", "returned"}

PhaseFrameCount(movement) ==
    IF movement.start.game_map # movement.end.game_map
    THEN frame_rate \div 2
    ELSE Len(points_between(movement.start.position, movement.end.position,
                            MovementSpeed(movement)).points)

ZoomFrameCount(last_movement) ==
    Len(points_between(last_movement.end.position,
                       MapCentre(last_movement.end.game_map),
                       ZoomSpeed(last_movement)).points)

RECURSIVE SumFrameCounts(_)
SumFrameCounts(ms) ==
    IF ms = <<>> THEN 0
    ELSE PhaseFrameCount(Head(ms)) + SumFrameCounts(Tail(ms))

C2_State ==
    /\ pc = "start" => index = 0
    /\ \A i \in 1..Len(frames) : frames[i].index = i - 1
    /\ Compiled => dirFrames = 0..(Len(frames) - 1)
    /\ index >= Len(frames)
    /\ pc \in {"loop", "movement", "transition", "zoom", "ffmpeg", "done"}
          => index = Len(frames)
    /\ pc \in {"ffmpeg", "done"} =>
          Len(frames) = SumFrameCounts(movements)
                          + ZoomFrameCount(movements[Len(movements)])

C2_Step ==
    /\ index' >= index
    /\ Len(frames') = Len(frames) + 1 =>
          /\ index' = index + 1
          /\ frames'[Len(frames')].index = index

InPhase == pc \in {"movement", "transition", "zoom"}

\* C3: no frame with an index above the ceiling of 100000 is ever written;
\* a phase that is about to name a frame above the ceiling fails with an
\* assertion error and saves nothing.
C3_FrameCeiling ==
    /\ [](/\ \A i \in 1..Len(frames) : frames[i].index <= MaxIndex
          /\ \A f \in dirFrames : f <= MaxIndex)
    /\ [][(InPhase /\ index > MaxIndex) =>
            /\ pc' = "error"
            /\ error' = "AssertionError"
            /\ frames' = frames
            /\ dirFrames' = dirFrames]_vars

\* The frame numbered with the ceiling was saved and the next one refused.
C3_Witness ==
    /\ pc = "error"
    /\ error = "AssertionError"
    /\ index = MaxIndex + 1
    /\ MaxIndex \in dirFrames
    /\ frames # <<>>
    /\ frames[Len(frames)].index = MaxIndex

\* C4: a movement whose type has pixels_per_second = 0 is rendered as a
\* TRANSITION even when both markers are on the same map, and is never
\* handed to the interpolator.
C4_TeleportIsTransition ==
    Compiled =>
      \A i \in 1..Len(phases) :
          (/\ phases[i].kind # "ZOOM_OUT"
           /\ movements[phases[i].mov].movement_type.pixels_per_second = 0)
            => phases[i].kind = "TRANSITION"

\* round(frame_rate * transition_seconds) for the half-second transition.
RoundedTransitionFrames == (frame_rate + 1) \div 2

\* The positions in frames of the frames of the transition of movement m.
TransitionFramesOf(m) ==
    {j \in 1..Len(frames) :
        frames[j].phase = "TRANSITION" /\ frames[j].mov = m}

SetMin(S) == CHOOSE x \in S : \A y \in S : x <= y

\* C5: a transition emits exactly round(frame_rate * transition_seconds)
\* frames, and its i-th frame (i from 0) is blended with factor
\* i / frame_count: 0 first, strictly increasing, below 1 at the end.
C5_TransitionFrames ==
    Compiled =>
      \A m \in 1..Len(movements) :
          LET fs == TransitionFramesOf(m)
          IN /\ (KindByMaps(movements[m]) = "TRANSITION" /\ mi > m)
                  => Cardinality(fs) = RoundedTransitionFrames
             /\ Cardinality(fs) <= RoundedTransitionFrames
             /\ \A j \in fs :
                  /\ frames[j].blend =
                       <<Ratio(j - SetMin(fs), RoundedTransitionFrames)>>
                  /\ frames[j].blend[1].num < frames[j].blend[1].den
                  /\ j + 1 \in fs =>
                       frames[j].blend[1].num < frames[j + 1].blend[1].num

\* A transition has run to its last frame.
C5_Witness ==
    /\ pc = "loop"
    /\ mi = 2
    /\ Cardinality(TransitionFramesOf(1)) = RoundedTransitionFrames
    /\ frames[1].blend = <<Ratio(0, RoundedTransitionFrames)>>
    /\ frames[Len(frames)].blend[1].num = RoundedTransitionFrames - 1

IsPointsCall == pc = "returned" /\ call.fn = "points_between"

\* C6: for step > 0 points_between returns a non-empty list that starts at
\* start, ends at end, and is exactly [start] when start = end.
C6_PointsEndAtEnd ==
    (IsPointsCall /\ call.args.step > 0) =>
      /\ ret.err = NoError
      /\ Len(ret.points) >= 1
      /\ ret.points[1] = call.args.start
      /\ ret.points[Len(ret.points)] = call.args.end
      /\ call.args.start = call.args.end => ret.points = <<call.args.start>>

\* A call that had to append end after several samples.
C6_Witness ==
    /\ IsPointsCall
    /\ call.args.step > 0
    /\ call.args.start # call.args.end
    /\ Len(ret.points) >= 4
    /\ ret.points[Len(ret.points) - 1] # call.args.end

\* ceil(|end - start| / step): the least m with (m * step)^2 >= |end-start|^2
CeilOfDistance(start, end, step) ==
    LET diff == Sub(end, start)
        d2 == diff.x * diff.x + diff.y * diff.y
    IN CHOOSE m \in 0..(Abs(diff.x) + Abs(diff.y)) :
          /\ m * step * m * step >= d2
          /\ m > 0 => (m - 1) * step * (m - 1) * step < d2

\* C7: for step > 0 and start # end the list has ceil(|end-start| / step)
\* elements, plus one exactly when the last computed sample is not end.
C7_PointsLength ==
    (IsPointsCall /\ call.args.step > 0 /\ call.args.start # call.args.end) =>
      LET n == CeilOfDistance(call.args.start, call.args.end, call.args.step)
          lastSample == Sample(call.args.start, call.args.end, n - 1,
                               call.args.step)
      IN /\ n >= 1
         /\ Len(ret.points) =
              IF lastSample = call.args.end THEN n ELSE n + 1
         /\ \A i \in 1..n :
              ret.points[i] = Sample(call.args.start, call.args.end, i - 1,
                                     call.args.step)

\* A call whose step does not divide the distance.
C7_Witness ==
    /\ IsPointsCall
    /\ call.args.step > 1
    /\ call.args.start # call.args.end
    /\ Magnitude(Sub(call.args.end, call.args.start)) % call.args.step # 0
    /\ Len(ret.points) = 4

\* C8: points_between fails on every step <= 0 before it produces a point,
\* also when start = end.
C8_NonPositiveStep ==
    (IsPointsCall /\ call.args.step <= 0) =>
      /\ ret.err = "AssertionError"
      /\ ret.points = <<>>

\* A call with step 0 and start = end was refused.
C8_Witness ==
    /\ IsPointsCall
    /\ call.args.step = 0
    /\ call.args.start = call.args.end
    /\ ret.err = "AssertionError"

IsCropCall == pc = "returned" /\ call.fn = "get_crop_at_position"

\* The window (w, h) fits the map: w <= map_size.x and h <= map_size.y.
WindowFits ==
    /\ call.args.crop_size[1] * Scale <= call.args.image_size.x
    /\ call.args.crop_size[2] * Scale <= call.args.image_size.y

\* C9: for every focus point and every window (w, h) that fits the map,
\* get_crop_at_position returns a rectangle inside [0,0]..map_size.
C9_CropInsideMap ==
    (IsCropCall /\ WindowFits) =>
      /\ ret.err = NoError
      /\ 0 <= ret.rect[1]
      /\ ret.rect[1] <= ret.rect[3]
      /\ ret.rect[3] * Scale <= call.args.image_size.x
      /\ 0 <= ret.rect[2]
      /\ ret.rect[2] <= ret.rect[4]
      /\ ret.rect[4] * Scale <= call.args.image_size.y

\* C10: get_crop_at_position fails exactly when the window (w, h) does not
\* fit the map, w measured against map_size.x and h against map_size.y.
C10_WindowTooLarge ==
    IsCropCall => (ret.err = "ValueError" <=> ~WindowFits)

IsFindCall == pc = "returned" /\ call.fn = "find_location_by_name"

\* The configured locations whose slug is the slug of the name looked up.
ExactHits ==
    {i \in 1..Len(Locations) :
        slugify(Locations[i].name) = slugify(call.args.location_name)}

\* The configured locations that score at least the threshold against the
\* name looked up.
NearMisses ==
    {i \in 1..Len(Locations) :
        RatioAtLeast(call.args.location_name, Locations[i].name,
                     FuzzyThreshold)}

\* C11: find_location_by_name is decided by the number of locations whose
\* slug equals the slug of the name: one hit returns that location, more
\* than one raises "Too many location match", none always raises "Cannot
\* find location" with exactly the locations of all maps that score at
\* least the threshold as suggestions; a location that only scores is
\* never returned.
C11_LocationResolution ==
    IsFindCall =>
      /\ Cardinality(ExactHits) = 1 =>
            /\ ret.err = NoError
            /\ \E i \in ExactHits : ret.location = Locations[i]
      /\ Cardinality(ExactHits) > 1 => ret.err = TooManyLocations
      /\ Cardinality(ExactHits) = 0 =>
            /\ ret.err = CannotFindLocation
            /\ Len(ret.suggestions) = Cardinality(NearMisses)
            /\ {ret.suggestions[k] : k \in 1..Len(ret.suggestions)}
                  = {Locations[i] : i \in NearMisses}
      /\ ret.err = NoError =>
            slugify(ret.location.name) = slugify(call.args.location_name)

\* A misspelt name is rejected with the location it is close to as the
\* only suggestion.
C11_Witness ==
    /\ IsFindCall
    /\ call.args.location_name = "Prim"
    /\ ret.err = CannotFindLocation
    /\ Len(ret.suggestions) = 1
    /\ ret.suggestions[1].name = "Primm"

\* The non-blank lines of a route file after its first line.
BodyLines(route) == SelectSeq(Tail(route), LAMBDA l : l.kind # "blank")

\* The configured location a name stands for when exactly one has its slug.
Resolved(name) ==
    CHOOSE l \in {Locations[i] : i \in 1..Len(Locations)} :
        slugify(l.name) = slugify(name)

\* C12: in every compiled movement list there is one movement per non-blank
\* line after the first, in file order; the first movement starts at the
\* location of the "start in" line and every later one starts where the
\* one before it ends.
C12_MovementChain ==
    (Compiled /\ (movements # <<>> \/ pc # "error")) =>
      LET body == BodyLines(lines)
      IN /\ Len(movements) = Len(body)
         /\ \A i \in 1..Len(movements) :
              /\ movements[i].start =
                    IF i = 1 THEN Resolved(lines[1].location)
                    ELSE movements[i - 1].end
              /\ movements[i].end = Resolved(body[i].location)
              /\ lower(movements[i].movement_type.name)
                    = lower(body[i].movement)

\* Two movements compiled, the second starting where the first, which
\* leaves its start, ends.
C12_Witness ==
    /\ Compiled
    /\ Len(movements) = 2
    /\ movements[1].end # movements[1].start
    /\ movements[2].start = movements[1].end
    /\ movements[2].end # movements[2].start

\* A line after the first that the compiler accepts.
LineCompiles(line) ==
    \/ line.kind = "blank"
    \/ /\ line.kind = "move"
       /\ find_location_by_name(line.location).err = NoError
       /\ get_movement_type(line.movement).err = NoError

\* Line k of the route is one the compiler cannot accept.
LineRejected(route, k) ==
    IF k = 1
    THEN \/ route[1].kind # "start"
         \/ find_location_by_name(route[1].location).err # NoError
    ELSE ~LineCompiles(route[k])

\* The route has a line that is rejected; FirstRejected is the first one.
HasRejectedLine(route) == \E k \in 1..Len(route) : LineRejected(route, k)

FirstRejected(route) ==
    CHOOSE k \in 1..Len(route) :
        /\ LineRejected(route, k)
        /\ \A j \in 1..(k - 1) : ~LineRejected(route, j)

\* The first thing wrong with the route is its syntax: the file is empty,
\* its first line is not a "start in" line, or the first rejected line
\* after it is not a "<movement> to <location>" line.
SyntaxRejected(route) ==
    \/ route = <<>>
    \/ /\ HasRejectedLine(route)
       /\ LET k == FirstRejected(route)
          IN IF k = 1 THEN route[1].kind # "start"
             ELSE route[k].kind \notin {"move", "blank"}

\* C13: a route whose first line is not "start in <location>", the empty
\* file included, and a route with a later non-blank line that is not
\* "<movement> to <location>" are rejected with one and the same error, the
\* one parse_route_str raises, and no movement list is returned.
C13_RouteSyntaxError ==
    (pc # "start" /\ SyntaxRejected(lines)) =>
      /\ pc = "error"
      /\ error = CouldNotMatchLine
      /\ movements = <<>>

IsTypeCall == pc = "returned" /\ call.fn = "get_movement_type"

IsParseCall == pc = "returned" /\ call.fn = "parse_route_file"

\* The configured movement types whose name equals the given one up to
\* case.
TypeMatches(name) ==
    {i \in 1..Len(movement_types) :
        lower(movement_types[i].name) = lower(name)}

\* What a lookup that does not find exactly one movement type raises.
TypeLookupError(name) ==
    IF Cardinality(TypeMatches(name)) = 0 THEN CouldNotFindMovementType
    ELSE TooManyMovementTypes

\* C14: get_movement_type compares names exactly and without regard to
\* case: one match is returned, none raises "Could not find movement
\* type", more than one raises "Too many matching movement types"; a route
\* whose first rejected line fails in this lookup is not compiled at all.
C14_MovementTypeLookup ==
    /\ IsTypeCall =>
         LET matches == TypeMatches(call.args.movement_type_name)
         IN /\ Cardinality(matches) = 1 =>
                 /\ ret.err = NoError
                 /\ \E i \in matches : ret.movement_type = movement_types[i]
            /\ Cardinality(matches) # 1 =>
                 ret.err = TypeLookupError(call.args.movement_type_name)
    /\ (IsParseCall /\ HasRejectedLine(call.args.lines)) =>
         LET route == call.args.lines
             k == FirstRejected(route)
         IN (/\ k > 1
             /\ route[k].kind = "move"
             /\ find_location_by_name(route[k].location).err = NoError
             /\ Cardinality(TypeMatches(route[k].movement)) # 1) =>
               /\ ret.err = TypeLookupError(route[k].movement)
               /\ ret.movements = <<>>

\* A route of three lines whose last line names an unknown movement type:
\* the movement of the second line is not returned either.
C14_Witness ==
    /\ IsParseCall
    /\ Len(call.args.lines) = 3
    /\ ~LineRejected(call.args.lines, 1)
    /\ call.args.lines[2].kind = "move"
    /\ LineCompiles(call.args.lines[2])
    /\ call.args.lines[3] = MoveLine("Fly", "Primm")
    /\ ret.err = CouldNotFindMovementType
    /\ ret.movements = <<>>

\* The map whose image the movement being rendered is drawn on.
MovementMap == movements[mi].start.game_map

C15_State ==
    pc = "movement" => locals.base_image = image[MovementMap]

C15_Step ==
    /\ image' # image =>
         /\ pc = "movement"
         /\ locals.i = Len(locals.points)
         /\ \A m \in GameMapNames \ {MovementMap} : image'[m] = image[m]
    /\ (pc = "movement" /\ pc' = "loop") =>
         image'[MovementMap] =
            image[MovementMap]
              \cup {TrailLine(movements[mi].start.position,
                              movements[mi].end.position,
                              movements[mi].movement_type.colour_code)}
    /\ (pc = "movement" /\ Len(frames') > Len(frames)) =>
         frames'[Len(frames')].sources[1].content = image[MovementMap]

C16_EmptyRouteHandled ==
    (/\ pc # "start"
     /\ lines # <<>>
     /\ ~HasRejectedLine(lines)
     /\ BodyLines(lines) = <<>>) =>
      /\ pc # "error"
      /\ \A k \in 1..Len(frames) :
            frames[k].phase \notin {"MOVEMENT", "TRANSITION"}

\* C17: when a line of the route, whichever it is, cannot be parsed or
\* resolved, render_route ends in the error before it enters a phase or
\* saves a frame; frames are saved only for a route that has been compiled
\* as a whole.
C17_CompileBeforeRender ==
    /\ (pc # "start" /\ (lines = <<>> \/ HasRejectedLine(lines))) =>
         /\ pc = "error"
         /\ movements = <<>>
         /\ phases = <<>>
         /\ frames = <<>>
         /\ dirFrames = {}
    /\ (Compiled /\ frames # <<>>) =>
         /\ ~HasRejectedLine(lines)
         /\ Len(movements) = Len(BodyLines(lines))

\* The last of three lines is rejected: the movement of the second line is
\* not rendered.
C17_Witness ==
    /\ pc = "error"
    /\ Len(lines) = 3
    /\ HasRejectedLine(lines)
    /\ FirstRejected(lines) = 3
    /\ lines[2].kind = "move"
    /\ frames = <<>>
    /\ dirFrames = {}

C18_State ==
    pc = "done" =>
      /\ dirFrames = 0..(Len(frames) - 1)
      /\ \A k \in 1..Len(frames) : frames[k].index = k - 1
      /\ dirVideo

C18_Step ==
    (Len(frames) = 0 /\ Len(frames') > 0) =>
      /\ dirFrames = {}
      /\ ~dirVideo

\* C18: the frame and video files found in the output directory are all
\* removed before the first frame is saved, so that after a successful
\* render the frame files of the directory are exactly those of the
\* indices 0 .. N-1 of the N frames of this render.
C18_StaleArtifactsRemoved == []C18_State /\ [][C18_Step]_vars

\* A render of fewer than 61 frames has succeeded in a directory that held
\* the frames 0, 1 and 60 of an earlier render.
C18_Witness ==
    /\ pc = "done"
    /\ listed = {0, 1, 60}
    /\ Len(frames) < 61
    /\ 60 \notin dirFrames

\* The phase render_route was in when the last phase method was entered.
LastPhase == phases[Len(phases)]

C19_State ==
    error # NoError =>
      /\ pc = "error"
      /\ ~dirVideo
      /\ \A k \in 1..Len(frames) :
            frames[k].index = frames[1].index + (k - 1)
      /\ dirFrames = {frames[k].index : k \in 1..Len(frames)}
      /\ \A k \in 1..Len(frames) :
            frames[k].phase # "ZOOM_OUT" => frames[k].mov <= LastPhase.mov
      /\ \A k \in 1..Len(phases) : phases[k].mov <= LastPhase.mov

C19_Step == error # NoError => UNCHANGED vars

\* C19: once a render has failed, in the geometry, in the viewport or at
\* the frame ceiling, nothing more happens: the frames saved before the
\* failure stay, with contiguous indices, no frame is saved after it, no
\* later movement and no zoom-out is entered, and ffmpeg is not run.
C19_FailureStopsRender == []C19_State /\ [][C19_Step]_vars

\* The second movement of a route has failed after its first movement was
\* rendered: the frames of the first movement are all there is.
C19_Witness ==
    /\ pc = "error"
    /\ Len(movements) = 2
    /\ Len(phases) = 2
    /\ frames # <<>>
    /\ frames[Len(frames)].mov = 1
    /\ frames[1].index = 0
    /\ dirFrames = 0..(Len(frames) - 1)
    /\ ~dirVideo

\* The map the last movement of the route ends on.
FinalMap == movements[Len(movements)].end.game_map

\* C20: for a route with at least one movement whose final map is at least
\* as large as the output window on both axes, render_final_zoom_out ends
\* without an error and saves at least one frame, also when the route ends
\* exactly in the centre of the map, when the map is not square and when
\* the last movement is of a type with speed zero.
C20_ZoomOutCompletes ==
    (/\ phases # <<>>
     /\ LastPhase.kind = "ZOOM_OUT"
     /\ image_size[FinalMap].x >= OutputSize * Scale
     /\ image_size[FinalMap].y >= OutputSize * Scale) =>
      /\ error = NoError
      /\ pc \in {"ffmpeg", "done"} =>
            \E k \in 1..Len(frames) : frames[k].phase = "ZOOM_OUT"

\* The ZOOM_OUT frames saved so far, in order.
ZoomFrames == SelectSeq(frames, LAMBDA f : f.phase = "ZOOM_OUT")

\* int(lerp(output size, map size, ratio)) on one axis, in pixels.
WindowAt(map_pixels, zoom_ratio) ==
    (OutputSize * zoom_ratio.den + (map_pixels - OutputSize) * zoom_ratio.num)
        \div zoom_ratio.den

\* C21: along the frames of render_final_zoom_out the zoom ratio
\* |start - point| / |start - target| is 0 at the first point, never
\* decreases and is 1 at the last point; the crop rectangle of each frame
\* is, on each axis, as wide as the interpolation between the output size
\* and the map size at that ratio, so the first frame is cropped at the
\* output size and the last frame covers the whole map.
C21_ZoomWindow ==
    (phases # <<>> /\ LastPhase.kind = "ZOOM_OUT") =>
      LET zf == ZoomFrames
          size == image_size[FinalMap]
      IN /\ \A k \in 1..Len(zf) :
              LET r == zf[k].blend[1]
                  rect == zf[k].sources[1].rect
              IN /\ r.den > 0
                 /\ k = 1 => r.num = 0
                 /\ k > 1 =>
                      zf[k - 1].blend[1].num * r.den
                          <= r.num * zf[k - 1].blend[1].den
                 /\ rect[3] - rect[1] = WindowAt(size.x \div Scale, r)
                 /\ rect[4] - rect[2] = WindowAt(size.y \div Scale, r)
                 /\ k = 1 => /\ rect[3] - rect[1] = OutputSize
                             /\ rect[4] - rect[2] = OutputSize
         /\ pc \in {"ffmpeg", "done"} =>
              /\ Len(zf) > 0
              /\ zf[Len(zf)].blend[1].num = zf[Len(zf)].blend[1].den
              /\ zf[Len(zf)].sources[1].rect
                    = <<0, 0, size.x \div Scale, size.y \div Scale>>

\* The trail lines of the first n movements of the route that are rendered
\* by render_movement on the given map.
CompletedTrails(game_map, n) ==
    {TrailLine(movements[j].start.position, movements[j].end.position,
               movements[j].movement_type.colour_code) :
        j \in {i \in 1..n : /\ KindByMaps(movements[i]) = "MOVEMENT"
                            /\ movements[i].start.game_map = game_map}}

\* The movements completed before the given frame was composed.
CompletedBefore(frame) ==
    IF frame.phase = "ZOOM_OUT" THEN Len(movements) ELSE frame.mov - 1

IsArrow(item) == "arrow_at" \in DOMAIN item

C24_CropSizeExact ==
    (IsCropCall /\ WindowFits /\ ret.err = NoError) =>
      /\ ret.rect[3] - ret.rect[1] = call.args.crop_size[1]
      /\ ret.rect[4] - ret.rect[2] = call.args.crop_size[2]

====
